---- MODULE Spec2Model ----
(***************************************************************************)
(* A model of ml/rl/training/evaluator.py: the Evaluator's report/flush    *)
(* state machine and the off-policy estimators it owns.  Floating-point    *)
(* numbers are modelled as exact rationals <<n, d>> in lowest terms; a      *)
(* zero denominator stands for the non-finite results of IEEE division     *)
(* (<<1,0>> = inf, <<-1,0>> = -inf, <<0,0>> = nan).                        *)
(***************************************************************************)
EXTENDS Integers, Sequences, FiniteSets, TLC

VARIABLES
    \* ---- Evaluator object (report / evaluate_batch) ----
    evaluator_batch_size, \* self.evaluator_batch_size
    all_batches,          \* self.all_batches: the nine batch buffers, in order
    history,              \* the rolling history lists written by evaluate_batch
    calls,                \* number of report calls made so far
    window_calls,         \* report calls since the buffers were last cleared
    last_call,            \* what the most recent report call did
    \* ---- one call of doubly_robust_one_step_policy_estimation ----
    one_step_args,        \* its arguments
    one_step_ret,         \* << >> until it returns, then <<ips, dm, dr>>
    \* ---- one call of doubly_robust_sequential_policy_estimation ----
    seq_args,             \* its arguments and self.gamma
    seq_i,                \* i, the index of the while loop
    last_episode_end,     \* last_episode_end
    doubly_robusts,       \* doubly_robusts, one entry per finished episode
    episode_log,          \* per finished episode, the indices j its for loop read
    seq_ret,              \* << >> until it returns, then <<np.mean(doubly_robusts)>>
    \* ---- the error decomposition of the weighted estimator ----
    err_args,             \* j_step_return_trajectories, low_bound, high_bound
    err_ret,              \* << >> until computed, then the matrix `error`
    \* ---- one call of calculate_step_return ----
    step_args,
    step_ret,             \* << >> until it returns, then <<j_step_return>>
    \* ---- one call of transform_to_equal_length_trajectories ----
    traj_args,
    traj_ret,             \* << >> until it returns, then <<the five outputs>>
    \* ---- one call of normalize_importance_weights ----
    norm_args,
    norm_ret,             \* << >> until it returns, then <<importance_weights>>
    \* ---- the rolling-average accessors ----
    recent_history,       \* the five history lists the accessors read
    recent_ret,           \* << >> until an accessor returns, then
                          \* <<accessor, mean, the lists before the call>>
    \* ---- the confidence-bound subsets of the weighted estimator ----
    subset_num_trajectories,  \* num_trajectories (0 while not in use)
    subset_i,                 \* the loop variable i of line 382
    trajectory_subsets        \* the trajectory_subset arrays built so far

varsReport == <<evaluator_batch_size, all_batches, history, calls, window_calls, last_call>>
varsOneStep == <<one_step_args, one_step_ret>>
varsSeq == <<seq_args, seq_i, last_episode_end, doubly_robusts, episode_log, seq_ret>>
varsErr == <<err_args, err_ret>>
varsStep == <<step_args, step_ret>>
varsTraj == <<traj_args, traj_ret>>
varsNorm == <<norm_args, norm_ret>>
varsRecent == <<recent_history, recent_ret>>
varsSubsets == <<subset_num_trajectories, subset_i, trajectory_subsets>>

vars == <<varsReport, varsOneStep, varsSeq, varsErr, varsStep, varsTraj, varsNorm,
          varsRecent, varsSubsets>>

\* A part of the program that a specification does not exercise stays idle.
IdleReport == /\ evaluator_batch_size = 0 /\ all_batches = << >> /\ history = << >>
              /\ calls = 0 /\ window_calls = 0 /\ last_call = << >>
IdleOneStep == one_step_args = << >> /\ one_step_ret = << >>
IdleSeq == /\ seq_args = << >> /\ seq_i = 0 /\ last_episode_end = 0
           /\ doubly_robusts = << >> /\ episode_log = << >> /\ seq_ret = << >>
IdleErr == err_args = << >> /\ err_ret = << >>
IdleStep == step_args = << >> /\ step_ret = << >>
IdleTraj == traj_args = << >> /\ traj_ret = << >>
IdleNorm == norm_args = << >> /\ norm_ret = << >>
IdleRecent == recent_history = << >> /\ recent_ret = << >>
IdleSubsets == /\ subset_num_trajectories = 0 /\ subset_i = 0
               /\ trajectory_subsets = << >>

(***************************************************************************)
(* Bounds of the model.                                                    *)
(***************************************************************************)
MaxBatch == 2       \* evaluator_batch_size ranges over 1..MaxBatch
MaxCalls == 3       \* report calls per behaviour
MaxDeviation == 1   \* a call supplies at most this many fields, or omits at most this many

(***************************************************************************)
(* Small helpers.                                                          *)
(***************************************************************************)
Max(a, b) == IF a >= b THEN a ELSE b
Min(a, b) == IF a <= b THEN a ELSE b
Abs(a) == IF a < 0 THEN -a ELSE a
Sign(a) == IF a > 0 THEN 1 ELSE IF a < 0 THEN -1 ELSE 0

RECURSIVE GCD(_, _)
GCD(a, b) == IF b = 0 THEN a ELSE GCD(b, a % b)

(***************************************************************************)
(* Numbers.  A finite float is the rational <<n, d>> with d > 0 in lowest  *)
(* terms; d = 0 is a non-finite float: <<1,0>> inf, <<-1,0>> -inf, <<0,0>> *)
(* nan.  The arithmetic is exact (rounding is not modelled) and follows    *)
(* IEEE for the non-finite values (the sign of zero is not modelled).      *)
(***************************************************************************)
Rat(n, d) ==
    IF d = 0 THEN <<Sign(n), 0>>
    ELSE LET g == GCD(Abs(n), Abs(d))
         IN  <<(Sign(d) * n) \div g, Abs(d) \div g>>
Int2R(n) == <<n, 1>>
Zero == <<0, 1>>
One == <<1, 1>>
NaN == <<0, 0>>
IsFinite(a) == a[2] # 0
IsNaN(a) == a = NaN
RNeg(a) == <<-a[1], a[2]>>
RAdd(a, b) ==
    IF IsFinite(a) /\ IsFinite(b) THEN Rat(a[1] * b[2] + b[1] * a[2], a[2] * b[2])
    ELSE IF IsNaN(a) \/ IsNaN(b) THEN NaN
    ELSE IF IsFinite(a) THEN b
    ELSE IF IsFinite(b) THEN a
    ELSE IF a = b THEN a ELSE NaN
RSub(a, b) == RAdd(a, RNeg(b))
RMul(a, b) ==
    IF IsFinite(a) /\ IsFinite(b) THEN Rat(a[1] * b[1], a[2] * b[2])
    ELSE IF IsNaN(a) \/ IsNaN(b) \/ a = Zero \/ b = Zero THEN NaN
    ELSE <<Sign(a[1]) * Sign(b[1]), 0>>
RDiv(a, b) ==
    IF IsNaN(a) \/ IsNaN(b) THEN NaN
    ELSE IF IsFinite(a) /\ IsFinite(b) THEN Rat(a[1] * b[2], a[2] * b[1])
    ELSE IF IsFinite(a) THEN Zero
    ELSE IF IsFinite(b) THEN <<Sign(a[1]) * (IF b[1] < 0 THEN -1 ELSE 1), 0>>
    ELSE NaN

\* np.sum of a vector (summed by halves, which keeps the evaluation shallow;
\* the arithmetic is exact, so the order does not matter), and the dot
\* product of two rows.
RECURSIVE RSum(_)
RSum(v) ==
    IF v = << >> THEN Zero
    ELSE IF Len(v) = 1 THEN v[1]
    ELSE LET h == Len(v) \div 2
         IN  RAdd(RSum(SubSeq(v, 1, h)), RSum(SubSeq(v, h + 1, Len(v))))
RowDot(u, v) == RSum([ a \in 1 .. Len(u) |-> RMul(u[a], v[a]) ])

(***************************************************************************)
(* Evaluator.__init__ and Evaluator.report.                                *)
(***************************************************************************)
\* The order of input_list / self.all_batches.
FieldNames == << "td_loss", "logged_actions", "logged_propensities",
                 "logged_rewards", "logged_values", "model_propensities",
                 "model_values", "model_values_on_logged_actions",
                 "model_action_idxs" >>
NumFields == Len(FieldNames)
Fields == 1 .. NumFields
TD_LOSS == 1
LOGGED_ACTIONS == 2
LOGGED_PROPENSITIES == 3
LOGGED_REWARDS == 4
LOGGED_VALUES == 5
MODEL_PROPENSITIES == 6
MODEL_VALUES == 7
MODEL_VALUES_ON_LOGGED_ACTIONS == 8
MODEL_ACTION_IDXS == 9

HistoryNames == { "td_loss", "mc_loss",
                  "value_inverse_propensity_score", "value_direct_method",
                  "value_doubly_robust",
                  "reward_inverse_propensity_score", "reward_direct_method",
                  "reward_doubly_robust" }

\* The argument lists a caller may pass: the set of fields that are not None.
InputLists ==
    { S \in SUBSET Fields :
        \/ Cardinality(S) <= MaxDeviation
        \/ Cardinality(Fields \ S) <= MaxDeviation }

\* last_call before any call: outcome is "ok" (returned), "assert" (the
\* 'Missing a batch' assertion fired at field fail_at) or "raise" (evaluate_batch
\* raised); input is the set of fields supplied; before is the buffer lengths
\* on entry; evaluated counts the evaluate_batch runs of the call; merged is
\* the buffer lengths evaluate_batch saw; window counts the calls since the
\* last clear, this one included.
NoCall == [ outcome |-> "none", input |-> {}, fail_at |-> 0,
            before |-> [f \in Fields |-> 0],
            evaluated |-> 0, merged |-> [f \in Fields |-> 0], window |-> 0 ]

InitReport ==
    /\ evaluator_batch_size \in 1 .. MaxBatch
    /\ all_batches = [f \in Fields |-> << >>]
    /\ history = [h \in HistoryNames |-> << >>]
    /\ calls = 0
    /\ window_calls = 0
    /\ last_call = NoCall

\* The for loop of report (lines 84-90): the first field that is None while
\* its buffer is non-empty stops the call with the AssertionError; 0 if none.
FirstMissing(batches, input) ==
    LET bad == { f \in Fields : f \notin input /\ Len(batches[f]) # 0 }
    IN  IF bad = {} THEN 0 ELSE CHOOSE f \in bad : \A g \in bad : f <= g

\* The buffers after the loop has run up to (not including) field `stop`;
\* stop = NumFields + 1 is the complete loop.  Each supplied batch is
\* identified by the ordinal of the call that supplied it.
AppendInputs_AllOrNothing(batches, input, stop, id) ==
    [ f \in Fields |->
        IF stop > NumFields /\ f \in input THEN Append(batches[f], id)
        ELSE batches[f] ]

AppendInputs(batches, input, stop, id) ==
    [ f \in Fields |->
        IF f < stop /\ f \in input THEN Append(batches[f], id) ELSE batches[f] ]

\* clear_evaluation_containers
ClearEvaluationContainers(batches) == [ f \in Fields |-> << >> ]

(***************************************************************************)
(* Evaluator.evaluate_batch.  The arrays themselves are not modelled: a     *)
(* history entry records the batches its value was computed from.  What is *)
(* modelled is which histories grow, and where the method raises: on a     *)
(* None operand (a buffer that stayed empty), or possibly on operands      *)
(* whose stacked row counts differ (numpy broadcasts some such shapes and  *)
(* rejects others, so both outcomes are allowed).                          *)
(***************************************************************************)
Present(batches, f) == Len(batches[f]) > 0

RowsDiffer(batches, fs) ==
    \E f, g \in fs : Present(batches, f) /\ Present(batches, g)
                     /\ Len(batches[f]) # Len(batches[g])

AppendTo(hist, names, v) ==
    [ h \in HistoryNames |-> IF h \in names THEN Append(hist[h], v) ELSE hist[h] ]

\* lines 113-116
EvalTdLoss(batches, hist) ==
    IF Present(batches, TD_LOSS)
    THEN AppendTo(hist, {"td_loss"}, batches[TD_LOSS])
    ELSE hist

\* lines 117-122: logged_values - model_values_on_logged_actions
McLossRaises(batches, strict) ==
    /\ Present(batches, LOGGED_VALUES)
    /\ \/ ~Present(batches, MODEL_VALUES_ON_LOGGED_ACTIONS)
       \/ strict /\ RowsDiffer(batches, {LOGGED_VALUES, MODEL_VALUES_ON_LOGGED_ACTIONS})

EvalMcLoss(batches, hist) ==
    IF Present(batches, LOGGED_VALUES)
    THEN AppendTo(hist, {"mc_loss"}, batches[LOGGED_VALUES])
    ELSE hist

\* lines 124-128
RunsOneStep(batches) ==
    /\ Present(batches, LOGGED_ACTIONS)
    /\ Present(batches, MODEL_PROPENSITIES)
    /\ Present(batches, MODEL_VALUES)

\* lines 129-139: np.ones(logged_values.shape) and the estimate on logged_values
ValueEstimateRaises(batches, strict) ==
    \/ ~Present(batches, LOGGED_VALUES)
    \/ strict /\ RowsDiffer(batches, {LOGGED_ACTIONS, LOGGED_VALUES, LOGGED_PROPENSITIES,
                                      MODEL_PROPENSITIES, MODEL_VALUES})

\* lines 148-154: the estimate on logged_rewards with estimated_values = None
RewardEstimateRaises(batches, strict) ==
    \/ ~Present(batches, LOGGED_REWARDS)
    \/ strict /\ RowsDiffer(batches, {LOGGED_ACTIONS, LOGGED_REWARDS, LOGGED_PROPENSITIES,
                                      MODEL_PROPENSITIES})

ValueHistories == { "value_inverse_propensity_score", "value_direct_method",
                    "value_doubly_robust" }
RewardHistories == { "reward_inverse_propensity_score", "reward_direct_method",
                     "reward_doubly_robust" }

\* One run of evaluate_batch; `strict` says whether numpy rejects operands
\* with differing row counts.
EvaluateBatchRun(batches, hist, strict) ==
    LET h1 == EvalTdLoss(batches, hist)
        h2 == EvalMcLoss(batches, h1)
        h3 == AppendTo(h2, ValueHistories, batches[LOGGED_VALUES])
        h4 == AppendTo(h3, RewardHistories, batches[LOGGED_REWARDS])
    IN  IF McLossRaises(batches, strict) THEN [ history |-> h1, raised |-> TRUE ]
        ELSE IF ~RunsOneStep(batches) THEN [ history |-> h2, raised |-> FALSE ]
        ELSE IF ValueEstimateRaises(batches, strict) THEN [ history |-> h2, raised |-> TRUE ]
        ELSE IF RewardEstimateRaises(batches, strict) THEN [ history |-> h3, raised |-> TRUE ]
        ELSE [ history |-> h4, raised |-> FALSE ]

EvaluateBatch(batches, hist) ==
    { EvaluateBatchRun(batches, hist, strict) : strict \in BOOLEAN }

\* The lengths of the nine buffers.
Lens(batches) == [ f \in Fields |-> Len(batches[f]) ]

\* line 92: the flush test.
FlushDue_GreaterOnly(batches, size) == Len(batches[TD_LOSS]) > size

FlushDue_AnyBuffer(batches, size) == \E f \in Fields : Len(batches[f]) >= size

FlushDue(batches, size) == Len(batches[TD_LOSS]) >= size

\* Evaluator.report(input_list), lines 61-94.  An exception (the assertion, or
\* one raised inside evaluate_batch) ends the behaviour.
Report(input) ==
    /\ calls < MaxCalls
    /\ last_call.outcome \in {"none", "ok"}
    /\ calls' = calls + 1
    /\ UNCHANGED <<evaluator_batch_size, varsOneStep, varsSeq, varsErr, varsStep,
                   varsTraj, varsNorm, varsRecent, varsSubsets>>
    /\ LET miss == FirstMissing(all_batches, input)
           stop == IF miss = 0 THEN NumFields + 1 ELSE miss
           appended == AppendInputs(all_batches, input, stop, calls + 1)
       IN  IF miss # 0
           THEN /\ all_batches' = appended
                /\ history' = history
                /\ window_calls' = window_calls + 1
                /\ last_call' = [ outcome |-> "assert", input |-> input, fail_at |-> miss,
                                  before |-> Lens(all_batches),
                                  evaluated |-> 0, merged |-> [f \in Fields |-> 0],
                                  window |-> window_calls + 1 ]
           ELSE IF FlushDue(appended, evaluator_batch_size)
           THEN \E run \in EvaluateBatch(appended, history) :
                /\ history' = run.history
                /\ all_batches' = IF run.raised THEN appended
                                  ELSE ClearEvaluationContainers(appended)
                /\ window_calls' = IF run.raised THEN window_calls + 1 ELSE 0
                /\ last_call' = [ outcome |-> IF run.raised THEN "raise" ELSE "ok",
                                  input |-> input, fail_at |-> 0,
                                  before |-> Lens(all_batches),
                                  evaluated |-> 1, merged |-> Lens(appended),
                                  window |-> window_calls + 1 ]
           ELSE /\ all_batches' = appended
                /\ history' = history
                /\ window_calls' = window_calls + 1
                /\ last_call' = [ outcome |-> "ok", input |-> input, fail_at |-> 0,
                                  before |-> Lens(all_batches),
                                  evaluated |-> 0, merged |-> [f \in Fields |-> 0],
                                  window |-> window_calls + 1 ]

Init == /\ InitReport
        /\ IdleOneStep /\ IdleSeq /\ IdleErr /\ IdleStep /\ IdleTraj /\ IdleNorm
        /\ IdleRecent /\ IdleSubsets

Next == \E input \in InputLists : Report(input)

Spec == Init /\ [][Next]_vars

(***************************************************************************)
(* Claims about Evaluator.report, checked under Spec.                      *)
(***************************************************************************)
\* A field is mixed in the window that a call closes or continues when its
\* buffer holds some, but not all, of the window's calls.
MixedAt(lens, window) == \E f \in Fields : lens[f] # 0 /\ lens[f] # window

\* C1: within one accumulation window, a field supplied in some report calls
\* and omitted in others (in either order) makes a report call fail with the
\* 'Missing a batch' assertion before evaluate_batch runs on the mixed
\* buffers: evaluate_batch never sees a buffer that holds only part of the
\* window's calls.
C1_EvaluateNeverSeesMixedBuffers ==
    last_call.evaluated = 1 => ~MixedAt(last_call.merged, last_call.window)

\* C2: a report call that supplies td_loss and returns runs evaluate_batch
\* exactly once and leaves all nine buffers empty if and only if it brings
\* len(td_loss_batches) to evaluator_batch_size; otherwise it runs no
\* evaluation and clears no buffer (each buffer keeps its entries and gains
\* the call's batch).  After every call that returns, the td_loss buffer is
\* shorter than evaluator_batch_size.
C2_FlushIffBatchSizeReached ==
    (last_call.outcome = "ok" /\ TD_LOSS \in last_call.input) =>
        LET reaches == last_call.before[TD_LOSS] + 1 = evaluator_batch_size
            flushed == /\ last_call.evaluated = 1
                       /\ \A f \in Fields : all_batches[f] = << >>
            kept == /\ last_call.evaluated = 0
                    /\ \A f \in Fields :
                         Len(all_batches[f]) =
                           last_call.before[f] + (IF f \in last_call.input THEN 1 ELSE 0)
        IN  /\ reaches <=> flushed
            /\ ~reaches => kept
            /\ Len(all_batches[TD_LOSS]) < evaluator_batch_size

\* C2 witness: with a batch size of 2, a second call supplying td_loss has
\* flushed, after a first call that did not.
C2_Witness ==
    /\ evaluator_batch_size = 2
    /\ last_call.outcome = "ok"
    /\ TD_LOSS \in last_call.input
    /\ last_call.before[TD_LOSS] = 1
    /\ last_call.evaluated = 1
    /\ \A f \in Fields : all_batches[f] = << >>

\* No report call so far has supplied td_loss: a supplied td_loss is appended
\* to its buffer, and leaves it only through a flush, whose evaluate_batch
\* records it in the td_loss history.
NoTdLossSupplied == all_batches[TD_LOSS] = << >> /\ history["td_loss"] = << >>

\* C12: the flush depends only on the td_loss buffer.  While every report call
\* so far has passed td_loss = None, evaluate_batch has never run and no
\* buffer has ever been cleared, whatever evaluator_batch_size is; and a call
\* that returns has grown the buffer of each field it supplied by exactly one
\* entry and left the other buffers as they were.
C12_FlushDependsOnlyOnTdLoss ==
    (NoTdLossSupplied /\ last_call.outcome # "none") =>
        /\ last_call.evaluated = 0
        /\ \A h \in HistoryNames : history[h] = << >>
        /\ window_calls = calls
        /\ \A f \in Fields : Len(all_batches[f]) >= last_call.before[f]
        /\ last_call.outcome = "ok" =>
             \A f \in Fields :
                 Len(all_batches[f]) =
                     last_call.before[f] + (IF f \in last_call.input THEN 1 ELSE 0)

\* C12 witness: with a batch size of 1, three calls have supplied
\* logged_actions and not td_loss, and the logged_actions buffer holds all
\* three batches, more than the batch size.
C12_Witness ==
    /\ NoTdLossSupplied
    /\ evaluator_batch_size = 1
    /\ calls = 3
    /\ last_call.outcome = "ok"
    /\ last_call.input = {LOGGED_ACTIONS}
    /\ all_batches[LOGGED_ACTIONS] = <<1, 2, 3>>

\* C13: a report call that fails the 'Missing a batch' assertion is not
\* atomic.  The assertion fires at the first field, in argument order, that
\* is None while its buffer is non-empty; the supplied fields before it have
\* been appended, no field after it has, and no flush occurs (nothing is
\* evaluated or cleared), so buffers are left with different lengths.
C13_FailedReportIsNotAtomic ==
    last_call.outcome = "assert" =>
        LET k == last_call.fail_at
            omitted(f) == f \notin last_call.input /\ last_call.before[f] > 0
        IN  /\ k \in Fields
            /\ omitted(k)
            /\ \A f \in 1 .. k - 1 : ~omitted(f)
            /\ \A f \in Fields :
                 Len(all_batches[f]) =
                     last_call.before[f]
                       + (IF f < k /\ f \in last_call.input THEN 1 ELSE 0)
            /\ last_call.evaluated = 0

\* C13 witness: after one complete call with a batch size of 2, a call
\* that omits only logged_rewards has failed: td_loss and the two fields
\* before logged_rewards hold two batches (td_loss has reached the batch
\* size, yet nothing was flushed) and the fields after it hold one.
C13_Witness ==
    /\ last_call.outcome = "assert"
    /\ evaluator_batch_size = 2
    /\ last_call.fail_at = LOGGED_REWARDS
    /\ last_call.input = Fields \ {LOGGED_REWARDS}
    /\ Lens(all_batches) = <<2, 2, 2, 1, 1, 1, 1, 1, 1>>
    /\ last_call.evaluated = 0

(***************************************************************************)
(* Evaluator.doubly_robust_one_step_policy_estimation, lines 203-241.      *)
(***************************************************************************)
MaxExamples == 2    \* a call has 1..MaxExamples logged examples

\* The arguments of one logged example.  Two actions; the logged action is
\* one-hot; None for estimated_values is << >>.
OneHot(a) == [ b \in 1 .. 2 |-> IF a = b THEN One ELSE Zero ]
Half == <<1, 2>>
OneStepExamples ==
    [ logged_action : { OneHot(1), OneHot(2) },
      logged_reward : { Int2R(-1), Int2R(1) },
      logged_propensity : { Half, One },
      target_propensities : { OneHot(1), OneHot(2), <<Half, Half>> },
      estimated_values : { <<Zero, Zero>>, <<Int2R(1), Int2R(2)>> } ]

Column(examples, field) == [ k \in 1 .. Len(examples) |-> examples[k][field] ]

\* The argument lists of a call with n logged examples.
OneStepArgs(n) ==
    { [ logged_actions |-> Column(ex, "logged_action"),
        logged_rewards |-> Column(ex, "logged_reward"),
        logged_propensities |-> Column(ex, "logged_propensity"),
        target_propensities |-> Column(ex, "target_propensities"),
        estimated_values |-> IF none THEN << >>
                             ELSE Column(ex, "estimated_values") ]
      : ex \in [ 1 .. n -> OneStepExamples ], none \in BOOLEAN }

\* lines 214-221: with None, np.zeros stands in for the values and for the
\* direct-method values.
EstimatedValuesOrZeros(target_propensities, estimated_values) ==
    IF estimated_values = << >>
    THEN [ k \in 1 .. Len(target_propensities) |->
             [ a \in 1 .. Len(target_propensities[k]) |-> Zero ] ]
    ELSE estimated_values

DirectMethodValues_OnesForNone(target_propensities, estimated_values) ==
    IF estimated_values = << >>
    THEN [ k \in 1 .. Len(target_propensities) |-> One ]
    ELSE [ k \in 1 .. Len(target_propensities) |->
             RowDot(target_propensities[k], estimated_values[k]) ]

DirectMethodValues(target_propensities, estimated_values) ==
    IF estimated_values = << >>
    THEN [ k \in 1 .. Len(target_propensities) |-> Zero ]
    ELSE [ k \in 1 .. Len(target_propensities) |->
             RowDot(target_propensities[k], estimated_values[k]) ]

\* lines 233-235, for one example
DoublyRobustValue_NoBaseline(importance_weight, logged_reward, value_for_action, dm) ==
    RMul(importance_weight, RSub(logged_reward, value_for_action))

DoublyRobustValue(importance_weight, logged_reward, value_for_action, dm) ==
    RAdd(RMul(importance_weight, RSub(logged_reward, value_for_action)), dm)

DoublyRobustOneStepPolicyEstimation(args) ==
    LET num_examples == Len(args.logged_actions)
        estimated_values ==
            EstimatedValuesOrZeros(args.target_propensities, args.estimated_values)
        direct_method_values ==
            DirectMethodValues(args.target_propensities, args.estimated_values)
        total_reward == RSum(args.logged_rewards)
        target_propensity_for_action ==
            [ k \in 1 .. num_examples |->
                RowDot(args.target_propensities[k], args.logged_actions[k]) ]
        importance_weight ==
            [ k \in 1 .. num_examples |->
                RDiv(target_propensity_for_action[k], args.logged_propensities[k]) ]
        ips == [ k \in 1 .. num_examples |->
                   RMul(importance_weight[k], args.logged_rewards[k]) ]
        estimated_values_for_action ==
            [ k \in 1 .. num_examples |->
                RowDot(estimated_values[k], args.logged_actions[k]) ]
        doubly_robust ==
            [ k \in 1 .. num_examples |->
                DoublyRobustValue(importance_weight[k], args.logged_rewards[k],
                                  estimated_values_for_action[k],
                                  direct_method_values[k]) ]
    IN  << RDiv(RSum(ips), total_reward),
           RDiv(RSum(direct_method_values), total_reward),
           RDiv(RSum(doubly_robust), total_reward) >>

InitOneStep ==
    /\ \E n \in 1 .. MaxExamples : one_step_args \in OneStepArgs(n)
    /\ one_step_ret = << >>
    /\ IdleReport /\ IdleSeq /\ IdleErr /\ IdleStep /\ IdleTraj /\ IdleNorm
    /\ IdleRecent /\ IdleSubsets

OneStepCall ==
    /\ one_step_ret = << >>
    /\ one_step_ret' = DoublyRobustOneStepPolicyEstimation(one_step_args)
    /\ UNCHANGED <<one_step_args, varsReport, varsSeq, varsErr, varsStep, varsTraj,
                   varsNorm, varsRecent, varsSubsets>>

NextOneStep == OneStepCall

SpecOneStep == InitOneStep /\ [][NextOneStep]_vars

\* What the claims read off a finished call.
OneStepReturned == one_step_ret # << >>
OneStepIPS == one_step_ret[1]
OneStepDM == one_step_ret[2]
OneStepDR == one_step_ret[3]
NonzeroTotalReward == RSum(one_step_args.logged_rewards) # Zero
NonzeroLoggedPropensities ==
    \A k \in 1 .. Len(one_step_args.logged_propensities) :
        one_step_args.logged_propensities[k] # Zero
\* Identical deterministic policies: the logged propensity of the taken action
\* is 1 and the target policy puts probability 1 on that same action.
IdenticalDeterministicPolicies ==
    \A k \in 1 .. Len(one_step_args.logged_actions) :
        /\ one_step_args.logged_propensities[k] = One
        /\ one_step_args.target_propensities[k] = one_step_args.logged_actions[k]
\* The estimated values of the logged actions, summed over the examples.
SumValuesOfLoggedActions ==
    RSum([ k \in 1 .. Len(one_step_args.logged_actions) |->
             RowDot(one_step_args.estimated_values[k], one_step_args.logged_actions[k]) ])

\* C5 as stated: under identical deterministic policies and a nonzero reward
\* sum, the three estimates IPS, DM and DR are equal, whatever the
\* estimated-value matrix.
C5_AllThreeEqual ==
    ( /\ OneStepReturned
      /\ one_step_args.estimated_values # << >>
      /\ IdenticalDeterministicPolicies
      /\ NonzeroTotalReward )
    => (OneStepIPS = OneStepDM /\ OneStepDM = OneStepDR)

\* C5 amended: under identical deterministic policies and a nonzero reward
\* sum, IPS and DR are equal (both are 1), whatever the estimated-value
\* matrix; DM is the summed estimated value of the logged actions over the
\* summed logged reward, so it equals them exactly when those two sums agree.
C5_IpsEqualsDr ==
    ( /\ OneStepReturned
      /\ one_step_args.estimated_values # << >>
      /\ IdenticalDeterministicPolicies
      /\ NonzeroTotalReward )
    => /\ OneStepIPS = OneStepDR
       /\ OneStepIPS = One
       /\ OneStepDM = RDiv(SumValuesOfLoggedActions, RSum(one_step_args.logged_rewards))
       /\ (OneStepDM = OneStepIPS) <=>
             (SumValuesOfLoggedActions = RSum(one_step_args.logged_rewards))

\* C5 witness: identical deterministic policies over two examples with
\* nonzero estimated values, where DM differs from IPS = DR.
C5_Witness ==
    /\ OneStepReturned
    /\ Len(one_step_args.logged_actions) = 2
    /\ one_step_args.estimated_values # << >>
    /\ \E k \in 1 .. 2 : one_step_args.estimated_values[k] # <<Zero, Zero>>
    /\ IdenticalDeterministicPolicies
    /\ NonzeroTotalReward
    /\ OneStepDM # OneStepIPS
    /\ OneStepIPS = OneStepDR

\* C10: with estimated_values = None, nonzero logged propensities and a
\* nonzero reward sum, the direct-method estimate is exactly 0 and the DR
\* estimate equals the IPS estimate.
C10_NoneValuesGiveIps ==
    ( /\ OneStepReturned
      /\ one_step_args.estimated_values = << >>
      /\ NonzeroLoggedPropensities
      /\ NonzeroTotalReward )
    => (OneStepDM = Zero /\ OneStepDR = OneStepIPS)

\* C10 witness: a call with None values, importance weights other than 1 and
\* a nonzero IPS estimate.
C10_Witness ==
    /\ OneStepReturned
    /\ one_step_args.estimated_values = << >>
    /\ NonzeroLoggedPropensities
    /\ NonzeroTotalReward
    /\ \E k \in 1 .. Len(one_step_args.logged_actions) :
           one_step_args.logged_propensities[k] # One
    /\ OneStepIPS \notin {Zero, One}
    /\ OneStepDR = OneStepIPS

(***************************************************************************)
(* Evaluator.doubly_robust_sequential_policy_estimation, lines 243-291.    *)
(***************************************************************************)
MaxSteps == 3       \* the flat stream has 1..MaxSteps decisions

\* One logged decision of the flat stream.
SeqPolicies ==
    { [ logged_action |-> OneHot(1), logged_propensity |-> One,
        target_propensities |-> OneHot(1),
        estimated_Q_values |-> <<Int2R(1), Zero>> ],
      [ logged_action |-> OneHot(2), logged_propensity |-> Half,
        target_propensities |-> <<Half, Half>>,
        estimated_Q_values |-> <<Int2R(1), Int2R(2)>> ] }
SeqDecisions ==
    { [ logged_reward |-> r, is_terminal |-> t, policy |-> p ]
        : r \in { Int2R(1), Int2R(2) }, t \in BOOLEAN, p \in SeqPolicies }
GammaValues == { Half, One }

\* The argument lists of a call on a stream of n decisions.
SeqArgs(n) ==
    { [ gamma |-> g,
        logged_actions |-> [ k \in 1 .. n |-> d[k].policy.logged_action ],
        logged_rewards |-> Column(d, "logged_reward"),
        logged_is_terminals |-> Column(d, "is_terminal"),
        logged_propensities |-> [ k \in 1 .. n |-> d[k].policy.logged_propensity ],
        target_propensities |-> [ k \in 1 .. n |-> d[k].policy.target_propensities ],
        estimated_Q_values |-> [ k \in 1 .. n |-> d[k].policy.estimated_Q_values ] ]
      : d \in [ 1 .. n -> SeqDecisions ], g \in GammaValues }

\* Python's x[j] on a sequence of length n: a negative j counts from the end.
\* The result is the 1-based position in the TLA+ sequence.
PyIndex(j, n) == IF j < 0 THEN n + j + 1 ELSE j + 1

\* list(range(start, stop, -1))
RECURSIVE PyRangeDown(_, _)
PyRangeDown(start, stop) ==
    IF start <= stop THEN << >> ELSE <<start>> \o PyRangeDown(start - 1, stop)

\* lines 255-266, per decision (0-based j, Python indexing)
SeqNumExamples(args) == Len(args.logged_actions)
SeqDirectMethodQ(args, j) ==
    LET p == PyIndex(j, SeqNumExamples(args))
    IN  RowDot(args.target_propensities[p], args.estimated_Q_values[p])
SeqImportanceWeight(args, j) ==
    LET p == PyIndex(j, SeqNumExamples(args))
    IN  RDiv(RowDot(args.target_propensities[p], args.logged_actions[p]),
             args.logged_propensities[p])
SeqValueForAction(args, j) ==
    LET p == PyIndex(j, SeqNumExamples(args))
    IN  RowDot(args.estimated_Q_values[p], args.logged_actions[p])
SeqReward(args, j) == args.logged_rewards[PyIndex(j, SeqNumExamples(args))]

\* lines 276-287: the body of the for loop, folded over the indices js in
\* order, from doubly_robust = 0.0 and episode_value = 0.0.
RECURSIVE EpisodeFold(_, _)
EpisodeFold(args, js) ==
    IF js = << >> THEN [ doubly_robust |-> Zero, episode_value |-> Zero ]
    ELSE LET before == EpisodeFold(args, SubSeq(js, 1, Len(js) - 1))
             j == js[Len(js)]
         IN  [ doubly_robust |->
                   RAdd(SeqDirectMethodQ(args, j),
                        RMul(SeqImportanceWeight(args, j),
                             RSub(RAdd(SeqReward(args, j),
                                       RMul(args.gamma, before.doubly_robust)),
                                  SeqValueForAction(args, j)))),
               episode_value |->
                   RAdd(RMul(before.episode_value, args.gamma), SeqReward(args, j)) ]

\* line 278: range(episode_end, last_episode_end - 1, -1)
EpisodeRange(episode_end, last_end) == PyRangeDown(episode_end, last_end - 1)

InitSeq ==
    /\ \E n \in 1 .. MaxSteps : seq_args \in SeqArgs(n)
    /\ seq_i = 0
    /\ last_episode_end = -1
    /\ doubly_robusts = << >>
    /\ episode_log = << >>
    /\ seq_ret = << >>
    /\ IdleReport /\ IdleOneStep /\ IdleErr /\ IdleStep /\ IdleTraj /\ IdleNorm
    /\ IdleRecent /\ IdleSubsets

SeqUnchanged ==
    UNCHANGED <<seq_args, varsReport, varsOneStep, varsErr, varsStep, varsTraj,
                varsNorm, varsRecent, varsSubsets>>

\* One pass of the while loop at a terminal decision (lines 274-290).
SeqEpisode ==
    /\ seq_ret = << >>
    /\ seq_i < SeqNumExamples(seq_args)
    /\ seq_args.logged_is_terminals[seq_i + 1]
    /\ LET js == EpisodeRange(seq_i, last_episode_end)
           end == EpisodeFold(seq_args, js)
       IN  /\ doubly_robusts' =
                 Append(doubly_robusts, RDiv(end.doubly_robust, end.episode_value))
           /\ episode_log' = Append(episode_log, js)
    /\ last_episode_end' = seq_i
    /\ seq_i' = seq_i + 1
    /\ seq_ret' = seq_ret
    /\ SeqUnchanged

\* One pass of the while loop at a non-terminal decision.
SeqSkip ==
    /\ seq_ret = << >>
    /\ seq_i < SeqNumExamples(seq_args)
    /\ ~seq_args.logged_is_terminals[seq_i + 1]
    /\ seq_i' = seq_i + 1
    /\ UNCHANGED <<last_episode_end, doubly_robusts, episode_log, seq_ret>>
    /\ SeqUnchanged

\* line 291: np.mean(doubly_robusts), nan for an empty list
SeqReturn ==
    /\ seq_ret = << >>
    /\ seq_i = SeqNumExamples(seq_args)
    /\ seq_ret' = << RDiv(RSum(doubly_robusts), Int2R(Len(doubly_robusts))) >>
    /\ UNCHANGED <<seq_i, last_episode_end, doubly_robusts, episode_log>>
    /\ SeqUnchanged

NextSeq == SeqEpisode \/ SeqSkip \/ SeqReturn

SpecSeq == InitSeq /\ [][NextSeq]_vars

\* The 0-based positions of the true terminal flags among the first n decisions.
TerminalsBefore(n) ==
    { t \in 0 .. n - 1 : seq_args.logged_is_terminals[t + 1] }
\* The terminal that ends episode k (k = 1, 2, ...), and the start of episode k.
EpisodeEnd(k) ==
    CHOOSE t \in TerminalsBefore(SeqNumExamples(seq_args)) :
        Cardinality(TerminalsBefore(t)) = k - 1
EpisodeStart(k) == IF k = 1 THEN 0 ELSE EpisodeEnd(k - 1) + 1

\* The recursion of the specification over the steps t .. end of one episode:
\* DR(t) = DM_Q(t) + w(t) * (r(t) + gamma * DR(t+1) - Q_a(t)), DR(end+1) = 0,
\* and the discounted return of the same steps.
RECURSIVE EpisodeDR(_, _)
EpisodeDR(t, end) ==
    IF t > end THEN Zero
    ELSE RAdd(SeqDirectMethodQ(seq_args, t),
              RMul(SeqImportanceWeight(seq_args, t),
                   RSub(RAdd(SeqReward(seq_args, t),
                             RMul(seq_args.gamma, EpisodeDR(t + 1, end))),
                        SeqValueForAction(seq_args, t))))
RECURSIVE EpisodeReturn(_, _)
EpisodeReturn(t, end) ==
    IF t > end THEN Zero
    ELSE RAdd(SeqReward(seq_args, t), RMul(seq_args.gamma, EpisodeReturn(t + 1, end)))

\* C3: for every episode k the backward loop reads exactly the indices
\* terminal, terminal - 1, ..., episode start (prev_terminal + 1), once each,
\* and the episode's score is DR(start) / episode_value computed from those
\* steps alone: no step of another episode, and not the array's last element
\* through index -1, enters it.
C3_LoopCoversExactlyTheEpisode ==
    \A k \in 1 .. Len(episode_log) :
        /\ episode_log[k] = PyRangeDown(EpisodeEnd(k), EpisodeStart(k) - 1)
        /\ doubly_robusts[k] =
               RDiv(EpisodeDR(EpisodeStart(k), EpisodeEnd(k)),
                    EpisodeReturn(EpisodeStart(k), EpisodeEnd(k)))

(***************************************************************************)
(* The error decomposition of                                              *)
(* Evaluator.weighted_doubly_robust_sequential_policy_estimation, lines    *)
(* 373 and 415-424, for more than one j-step.  The confidence bounds are   *)
(* taken as given (lines 411-413 compute them with scipy).                 *)
(***************************************************************************)
MaxJSteps == 3          \* num_j_steps ranges over 2..MaxJSteps
MaxTrajectories == 2    \* a batch has up to MaxTrajectories trajectories

StepReturnValues == { Zero, Int2R(3) }
ConfidenceBounds == { <<Int2R(1), Int2R(2)>>, <<Int2R(2), Int2R(2)>>,
                      <<Zero, Int2R(6)>> }

\* The values at line 415 for n j-steps and t trajectories.
ErrArgs(n, t) ==
    { [ num_j_steps |-> n,
        j_step_return_trajectories |-> m,
        low_bound |-> cb[1], high_bound |-> cb[2] ]
      : m \in [ 1 .. n -> [ 1 .. t -> StepReturnValues ] ],
        cb \in ConfidenceBounds }

\* line 373: np.sum(j_step_return_trajectories, axis=1)
JStepReturns(m) == [ i \in 1 .. Len(m) |-> RSum(m[i]) ]

RLess(a, b) == a[1] * b[2] < b[1] * a[2]

\* lines 416-420
JStepBias(num_j_steps, j_step_returns, low_bound, high_bound) ==
    [ i \in 1 .. num_j_steps |->
        IF RLess(high_bound, j_step_returns[i]) THEN RSub(j_step_returns[i], high_bound)
        ELSE IF RLess(j_step_returns[i], low_bound) THEN RSub(low_bound, j_step_returns[i])
        ELSE Zero ]

\* line 422: np.cov of a matrix whose rows are the variables (ddof = 1)
RowMean(row) == RDiv(RSum(row), Int2R(Len(row)))
NpCov(m) ==
    [ i \in 1 .. Len(m) |->
        [ k \in 1 .. Len(m) |->
            RDiv(RSum([ t \in 1 .. Len(m[i]) |->
                          RMul(RSub(m[i][t], RowMean(m[i])),
                               RSub(m[k][t], RowMean(m[k]))) ]),
                 Int2R(Len(m[i]) - 1)) ] ]

\* numpy on a 1-D array: .T is the array itself, * is elementwise, and a
\* matrix plus a 1-D array adds the array to every row.
NpTranspose1D(v) == v
NpMultiply1D(u, v) == [ k \in 1 .. Len(u) |-> RMul(u[k], v[k]) ]
NpAddMatrixVector(m, v) ==
    [ i \in 1 .. Len(m) |-> [ k \in 1 .. Len(m[i]) |-> RAdd(m[i][k], v[k]) ] ]

\* line 424: error = covariance + j_step_bias.T * j_step_bias
TotalError(covariance, j_step_bias) ==
    NpAddMatrixVector(covariance, NpMultiply1D(NpTranspose1D(j_step_bias), j_step_bias))

ErrBias(args) ==
    JStepBias(args.num_j_steps, JStepReturns(args.j_step_return_trajectories),
              args.low_bound, args.high_bound)

InitErr ==
    /\ \E n \in 2 .. MaxJSteps, t \in 2 .. MaxTrajectories :
           err_args \in ErrArgs(n, t)
    /\ err_ret = << >>
    /\ IdleReport /\ IdleOneStep /\ IdleSeq /\ IdleStep /\ IdleTraj /\ IdleNorm
    /\ IdleRecent /\ IdleSubsets

ErrDecompose ==
    /\ err_ret = << >>
    /\ err_ret' = TotalError(NpCov(err_args.j_step_return_trajectories),
                             ErrBias(err_args))
    /\ UNCHANGED <<err_args, varsReport, varsOneStep, varsSeq, varsStep, varsTraj,
                   varsNorm, varsRecent, varsSubsets>>

NextErr == ErrDecompose

SpecErr == InitErr /\ [][NextErr]_vars

\* C4: with more than one j-step, the error matrix handed to the minimizer is
\* covariance + outer_product(bias, bias):
\* error[i][k] = cov[i][k] + j_step_bias[i] * j_step_bias[k] for all i, k.
C4_ErrorIsCovPlusOuterProduct ==
    err_ret # << >> =>
        LET cov == NpCov(err_args.j_step_return_trajectories)
            bias == ErrBias(err_args)
        IN  \A i, k \in 1 .. err_args.num_j_steps :
                err_ret[i][k] = RAdd(cov[i][k], RMul(bias[i], bias[k]))

(***************************************************************************)
(* Evaluator.calculate_step_return, lines 457-497.                         *)
(***************************************************************************)
MaxLength == 3      \* trajectories have length 1..MaxLength

\* A trajectory of length len: its rows of the five matrices, by 0-based t.
TrajectoryKinds(len) ==
    { [ weighted_discounts |-> [ t \in 1 .. len |-> Int2R(t) ],
        weighted_discounts_one_earlier |-> [ t \in 1 .. len |-> Int2R(2 * t + 1) ],
        rewards |-> [ t \in 1 .. len |-> Int2R(3 * t - 1) ],
        estimated_state_values |-> [ t \in 1 .. len |-> Int2R(t + 4) ],
        estimated_Q_values |-> [ t \in 1 .. len |-> Int2R(8 - t) ] ],
      [ weighted_discounts |-> [ t \in 1 .. len |-> Rat(1, 2 * t) ],
        weighted_discounts_one_earlier |-> [ t \in 1 .. len |-> Rat(1, t) ],
        rewards |-> [ t \in 1 .. len |-> Int2R(t * t) ],
        estimated_state_values |-> [ t \in 1 .. len |-> Int2R(2 * t - 1) ],
        estimated_Q_values |-> [ t \in 1 .. len |-> Int2R(-t) ] ],
      [ weighted_discounts |-> [ t \in 1 .. len |-> One ],
        weighted_discounts_one_earlier |-> [ t \in 1 .. len |-> One ],
        rewards |-> [ t \in 1 .. len |-> Int2R(t % 2) ],
        estimated_state_values |-> [ t \in 1 .. len |-> Int2R(5) ],
        estimated_Q_values |-> [ t \in 1 .. len |-> Int2R(t) ] ],
      [ weighted_discounts |-> [ t \in 1 .. len |-> Zero ],
        weighted_discounts_one_earlier |-> [ t \in 1 .. len |-> Int2R(2) ],
        rewards |-> [ t \in 1 .. len |-> Int2R(7) ],
        estimated_state_values |-> [ t \in 1 .. len |-> Int2R(len + 1 - t) ],
        estimated_Q_values |-> [ t \in 1 .. len |-> Zero ] ] }

Infinity == <<1, 0>>    \* float("inf")

StepArgs ==
    UNION { { [ weighted_discounts |-> Column(tr, "weighted_discounts"),
                weighted_discounts_one_earlier |->
                    Column(tr, "weighted_discounts_one_earlier"),
                rewards |-> Column(tr, "rewards"),
                estimated_state_values |-> Column(tr, "estimated_state_values"),
                estimated_Q_values |-> Column(tr, "estimated_Q_values"),
                j_step |-> j ]
              : tr \in [ 1 .. n -> TrajectoryKinds(len) ],
                j \in { Int2R(x) : x \in -1 .. len + 1 } \cup { Infinity } }
            : n \in 1 .. MaxTrajectories, len \in 1 .. MaxLength }

\* int(min(j_step, trajectory_length - 1)), line 468
ClampJStep(j_step, trajectory_length) ==
    IF IsFinite(j_step) /\ j_step[1] <= trajectory_length - 1
    THEN j_step[1]
    ELSE trajectory_length - 1

\* Python's row[:stop]
PySliceTo(row, stop) ==
    IF stop >= 0 THEN SubSeq(row, 1, Min(stop, Len(row)))
    ELSE SubSeq(row, 1, Max(Len(row) + stop, 0))

\* np.sum(np.multiply(a[:, :stop], b[:, :stop]), axis=1) for one trajectory
SlicedDot(a, b, stop) == RowDot(PySliceTo(a, stop), PySliceTo(b, stop))

\* lines 475-481, for one trajectory
DirectMethodTail_AlwaysBootstraps(args, i, j_step, trajectory_length) ==
    LET col == PyIndex(Min(j_step + 1, trajectory_length - 1), trajectory_length)
    IN  RMul(args.weighted_discounts_one_earlier[i][col],
             args.estimated_state_values[i][col])

DirectMethodTail(args, i, j_step, trajectory_length) ==
    IF j_step < trajectory_length - 1
    THEN RMul(args.weighted_discounts_one_earlier[i][PyIndex(j_step + 1, trajectory_length)],
              args.estimated_state_values[i][PyIndex(j_step + 1, trajectory_length)])
    ELSE Zero

CalculateStepReturn(args) ==
    LET trajectory_length == Len(args.rewards[1])
        num_trajectories == Len(args.rewards)
        j_step == ClampJStep(args.j_step, trajectory_length)
    IN  [ i \in 1 .. num_trajectories |->
            LET importance_sampled_cumulative_reward ==
                    SlicedDot(args.weighted_discounts[i], args.rewards[i], j_step + 1)
                direct_method_value ==
                    DirectMethodTail(args, i, j_step, trajectory_length)
                control_variate ==
                    RSub(SlicedDot(args.weighted_discounts[i],
                                   args.estimated_Q_values[i], j_step + 1),
                         SlicedDot(args.weighted_discounts_one_earlier[i],
                                   args.estimated_state_values[i], j_step + 1))
            IN  RSub(RAdd(importance_sampled_cumulative_reward, direct_method_value),
                     control_variate) ]

InitStep ==
    /\ step_args \in StepArgs
    /\ step_ret = << >>
    /\ IdleReport /\ IdleOneStep /\ IdleSeq /\ IdleErr /\ IdleTraj /\ IdleNorm
    /\ IdleRecent /\ IdleSubsets

StepReturnCall ==
    /\ step_ret = << >>
    /\ step_ret' = << CalculateStepReturn(step_args) >>
    /\ UNCHANGED <<step_args, varsReport, varsOneStep, varsSeq, varsErr, varsTraj,
                   varsNorm, varsRecent, varsSubsets>>

NextStep == StepReturnCall

SpecStep == InitStep /\ [][NextStep]_vars

\* The sums of the specification, over the 0-based steps 0 .. j of trajectory i.
RECURSIVE RewardTerm(_, _)
RewardTerm(i, j) ==
    IF j < 0 THEN Zero
    ELSE RAdd(RewardTerm(i, j - 1),
              RMul(step_args.weighted_discounts[i][j + 1], step_args.rewards[i][j + 1]))
RECURSIVE ControlVariateTerm(_, _)
ControlVariateTerm(i, j) ==
    IF j < 0 THEN Zero
    ELSE RAdd(ControlVariateTerm(i, j - 1),
              RSub(RMul(step_args.weighted_discounts[i][j + 1],
                        step_args.estimated_Q_values[i][j + 1]),
                   RMul(step_args.weighted_discounts_one_earlier[i][j + 1],
                        step_args.estimated_state_values[i][j + 1])))
BootstrapTerm(i, j) ==
    RMul(step_args.weighted_discounts_one_earlier[i][j + 2],
         step_args.estimated_state_values[i][j + 2])
StepLength == Len(step_args.rewards[1])
\* j = min(j_step, L - 1)
StepHorizon ==
    IF step_args.j_step = Infinity THEN StepLength - 1
    ELSE Min(step_args.j_step[1], StepLength - 1)

\* C6: for every trajectory i, length L >= 1 and j_step in {-1, 0, 1, ...} or
\* +infinity, the result is, with j = min(j_step, L-1): the weighted rewards
\* of steps 0..j, plus the bootstrap wd_one_earlier[j+1] * state_value[j+1]
\* if j < L-1 (else 0), minus the control variate of steps 0..j.  So every
\* j_step >= L-1 has a zero tail, and j_step = -1 gives exactly the bootstrap
\* wd_one_earlier[0] * state_value[0].
C6_StepReturnFormula ==
    step_ret # << >> =>
        \A i \in 1 .. Len(step_args.rewards) :
            LET j == StepHorizon
                tail == IF j < StepLength - 1 THEN BootstrapTerm(i, j) ELSE Zero
            IN  /\ step_ret[1][i] =
                       RSub(RAdd(RewardTerm(i, j), tail), ControlVariateTerm(i, j))
                /\ (step_args.j_step = Infinity \/ step_args.j_step[1] >= StepLength - 1)
                       => step_ret[1][i] =
                              RSub(RewardTerm(i, StepLength - 1),
                                   ControlVariateTerm(i, StepLength - 1))
                /\ step_args.j_step = Int2R(-1)
                       => step_ret[1][i] = BootstrapTerm(i, -1)

\* C6 witness: two trajectories of length 3 cut at j_step = 1, with a
\* nonzero bootstrap tail.
C6_Witness ==
    /\ step_ret # << >>
    /\ Len(step_args.rewards) = 2
    /\ StepLength = 3
    /\ step_args.j_step = Int2R(1)
    /\ BootstrapTerm(1, 1) # Zero
    /\ step_ret[1][1] # RSub(RewardTerm(1, 2), ControlVariateTerm(1, 2))

(***************************************************************************)
(* Evaluator.transform_to_equal_length_trajectories, lines 506-569.        *)
(***************************************************************************)
\* One decision of the flat stream: its action, reward, logged propensity,
\* target propensities and Q-values.  Some values coincide with the fill
\* values, some do not.
TrajDecisions ==
    { [ action |-> OneHot(1), reward |-> Int2R(3), logged_propensity |-> Half,
        target_propensities |-> <<Half, Half>>,
        estimated_Q_values |-> <<Int2R(1), Int2R(2)>> ],
      [ action |-> OneHot(2), reward |-> Zero, logged_propensity |-> One,
        target_propensities |-> OneHot(2),
        estimated_Q_values |-> <<Zero, Zero>> ],
      [ action |-> OneHot(2), reward |-> Int2R(-1), logged_propensity |-> Rat(1, 4),
        target_propensities |-> OneHot(1),
        estimated_Q_values |-> <<Int2R(5), Int2R(-2)>> ] }

\* The argument lists of a call on a stream of n decisions.
TrajArgs(n) ==
    { [ is_terminals |-> term,
        actions |-> Column(d, "action"),
        rewards |-> Column(d, "reward"),
        logged_propensities |-> Column(d, "logged_propensity"),
        target_propensities |-> Column(d, "target_propensities"),
        estimated_Q_values |-> Column(d, "estimated_Q_values") ]
      : d \in [ 1 .. n -> TrajDecisions ], term \in [ 1 .. n -> BOOLEAN ] }

\* lines 523-528: the index ranges (1-based positions) of the episodes among
\* the first n decisions, one per true terminal flag, in order.
RECURSIVE Trajectories(_, _)
Trajectories(is_terminals, n) ==
    IF n = 0 THEN << >>
    ELSE LET before == Trajectories(is_terminals, n - 1)
             episode_start ==
                 IF before = << >> THEN 1
                 ELSE before[Len(before)][Len(before[Len(before)])] + 1
         IN  IF is_terminals[n]
             THEN Append(before, [ t \in 1 .. n - episode_start + 1 |->
                                     episode_start + t - 1 ])
             ELSE before

\* x[trajectory] for an index array
Take(x, trajectory) == [ t \in 1 .. Len(trajectory) |-> x[trajectory[t]] ]

RECURSIVE LongestLen(_)
LongestLen(x) ==
    IF x = << >> THEN 0 ELSE Max(Len(x[Len(x)]), LongestLen(SubSeq(x, 1, Len(x) - 1)))
RECURSIVE ShortestLen(_)
ShortestLen(x) ==
    IF Len(x) = 1 THEN Len(x[1])
    ELSE Min(Len(x[Len(x)]), ShortestLen(SubSeq(x, 1, Len(x) - 1)))

\* list(itertools.zip_longest(*x, fillvalue=fill_value))
ZipLongest_StopsAtShortest(x, fill_value) ==
    [ t \in 1 .. (IF x = << >> THEN 0 ELSE ShortestLen(x)) |->
        [ i \in 1 .. Len(x) |-> x[i][t] ] ]

ZipLongest(x, fill_value) ==
    [ t \in 1 .. LongestLen(x) |->
        [ i \in 1 .. Len(x) |-> IF t <= Len(x[i]) THEN x[i][t] ELSE fill_value ] ]

\* np.array(...).swapaxes(0, 1) of a non-empty list of equal-length tuples
SwapAxes01(m) == [ i \in 1 .. Len(m[1]) |-> [ t \in 1 .. Len(m) |-> m[t][i] ] ]

\* lines 543-547
ToEqualLength(x, fill_value) == SwapAxes01(ZipLongest(x, fill_value))

\* np.zeros([num_actions])
NpZeros(num_actions) == [ a \in 1 .. num_actions |-> Zero ]

\* The whole function.  Without a true terminal flag there is no trajectory,
\* np.array of the empty list is 1-D and swapaxes(0, 1) raises.
TransformToEqualLengthTrajectories(args) ==
    LET num_actions == Len(args.target_propensities[1])
        trajectories == Trajectories(args.is_terminals, Len(args.is_terminals))
        pick(x) == [ k \in 1 .. Len(trajectories) |-> Take(x, trajectories[k]) ]
    IN  IF trajectories = << >>
        THEN [ raised |-> TRUE, outputs |-> << >> ]
        ELSE [ raised |-> FALSE,
               outputs |->
                 << ToEqualLength(pick(args.actions), NpZeros(num_actions)),
                    ToEqualLength(pick(args.rewards), Zero),
                    ToEqualLength(pick(args.logged_propensities), One),
                    ToEqualLength(pick(args.target_propensities), NpZeros(num_actions)),
                    ToEqualLength(pick(args.estimated_Q_values), NpZeros(num_actions)) >> ]

InitTraj ==
    /\ \E n \in 1 .. MaxSteps : traj_args \in TrajArgs(n)
    /\ traj_ret = << >>
    /\ IdleReport /\ IdleOneStep /\ IdleSeq /\ IdleErr /\ IdleStep /\ IdleNorm
    /\ IdleRecent /\ IdleSubsets

TransformCall ==
    /\ traj_ret = << >>
    /\ traj_ret' = << TransformToEqualLengthTrajectories(traj_args) >>
    /\ UNCHANGED <<traj_args, varsReport, varsOneStep, varsSeq, varsErr, varsStep,
                   varsNorm, varsRecent, varsSubsets>>

NextTraj == TransformCall

SpecTraj == InitTraj /\ [][NextTraj]_vars

\* The 1-based positions of the true terminal flags, the terminal that ends
\* episode k, and the first decision and the length of episode k.
TrajTerminals == { p \in 1 .. Len(traj_args.is_terminals) : traj_args.is_terminals[p] }
TrajEnd(k) ==
    CHOOSE p \in TrajTerminals : Cardinality({ q \in TrajTerminals : q < p }) = k - 1
TrajStart(k) == IF k = 1 THEN 1 ELSE TrajEnd(k - 1) + 1
TrajLen(k) == TrajEnd(k) - TrajStart(k) + 1
TrajLmax ==
    CHOOSE n \in 1 .. Len(traj_args.is_terminals) :
        /\ \E k \in 1 .. Cardinality(TrajTerminals) : TrajLen(k) = n
        /\ \A k \in 1 .. Cardinality(TrajTerminals) : TrajLen(k) <= n
\* Output number o holds the input `original`, padded with `fill`.
PaddedCopy(output, original, fill) ==
    /\ Len(output) = Cardinality(TrajTerminals)
    /\ \A k \in 1 .. Len(output) :
        /\ Len(output[k]) = TrajLmax
        /\ \A t \in 1 .. TrajLmax :
             output[k][t] = IF t <= TrajLen(k) THEN original[TrajStart(k) + t - 1]
                            ELSE fill

\* C7: with at least one true terminal flag, each of the five outputs has one
\* row per true terminal flag, each of length Lmax, the longest episode; the
\* first n entries of an episode's row are its decisions' original values in
\* order and the trailing Lmax - n entries are the fill value: the zero
\* vector for actions, target propensities and Q-values, 0 for rewards and 1
\* for logged propensities.
C7_PaddedEpisodes ==
    (traj_ret # << >> /\ TrajTerminals # {}) =>
        /\ ~traj_ret[1].raised
        /\ PaddedCopy(traj_ret[1].outputs[1], traj_args.actions, <<Zero, Zero>>)
        /\ PaddedCopy(traj_ret[1].outputs[2], traj_args.rewards, Zero)
        /\ PaddedCopy(traj_ret[1].outputs[3], traj_args.logged_propensities, One)
        /\ PaddedCopy(traj_ret[1].outputs[4], traj_args.target_propensities, <<Zero, Zero>>)
        /\ PaddedCopy(traj_ret[1].outputs[5], traj_args.estimated_Q_values, <<Zero, Zero>>)

\* C7 witness: two episodes of lengths 1 and 2, so the first row is padded,
\* with a logged propensity other than the fill value before the padding.
C7_Witness ==
    /\ traj_ret # << >>
    /\ traj_args.is_terminals = <<TRUE, FALSE, TRUE>>
    /\ traj_args.logged_propensities[1] # One
    /\ traj_ret[1].outputs[3][1] = << traj_args.logged_propensities[1], One >>
    /\ traj_ret[1].outputs[2][1][2] = Zero

(***************************************************************************)
(* Evaluator.normalize_importance_weights, lines 448-455.                  *)
(***************************************************************************)
MaxColumns == 2     \* the matrix has 1..MaxColumns timestep columns

ImportanceRatios == { Zero, Half, Int2R(3) }

\* The n x len matrices of ratios.
NormArgs(n, len) == [ 1 .. n -> [ 1 .. len -> ImportanceRatios ] ]

\* np.sum(importance_weights, axis=0)
ColumnSum(m, c) == RSum([ i \in 1 .. Len(m) |-> m[i][c] ])

\* line 452: what a zero column sum is replaced with
ZeroColumnDivisor_NumColumns(importance_weights) == Int2R(Len(importance_weights[1]))

ZeroColumnDivisor(importance_weights) == Int2R(Len(importance_weights))

NormalizeImportanceWeights(importance_weights) ==
    LET where_zeros ==
            { c \in 1 .. Len(importance_weights[1]) :
                ColumnSum(importance_weights, c) = Zero }
        sum_importance_weights ==
            [ c \in 1 .. Len(importance_weights[1]) |->
                IF c \in where_zeros THEN ZeroColumnDivisor(importance_weights)
                ELSE ColumnSum(importance_weights, c) ]
        ones_filled ==
            [ i \in 1 .. Len(importance_weights) |->
                [ c \in 1 .. Len(importance_weights[1]) |->
                    IF c \in where_zeros THEN One ELSE importance_weights[i][c] ] ]
    IN  [ i \in 1 .. Len(importance_weights) |->
            [ c \in 1 .. Len(importance_weights[1]) |->
                RDiv(ones_filled[i][c], sum_importance_weights[c]) ] ]

InitNorm ==
    /\ \E n \in 1 .. MaxTrajectories, len \in 1 .. MaxColumns :
           norm_args \in NormArgs(n, len)
    /\ norm_ret = << >>
    /\ IdleReport /\ IdleOneStep /\ IdleSeq /\ IdleErr /\ IdleStep /\ IdleTraj
    /\ IdleRecent /\ IdleSubsets

NormalizeCall ==
    /\ norm_ret = << >>
    /\ norm_ret' = << NormalizeImportanceWeights(norm_args) >>
    /\ UNCHANGED <<norm_args, varsReport, varsOneStep, varsSeq, varsErr, varsStep,
                   varsTraj, varsRecent, varsSubsets>>

NextNorm == NormalizeCall

SpecNorm == InitNorm /\ [][NextNorm]_vars

\* C8: on a T x L matrix of non-negative ratios the result is column-
\* stochastic: a column with a nonzero input sum has every entry divided by
\* that sum, a column whose input sum is exactly zero becomes uniform 1/T,
\* every column of the result sums to 1, and a column's result depends on
\* that column's input alone.
C8_ColumnStochastic ==
    norm_ret # << >> =>
        LET T == Len(norm_args)
        IN  \A c \in 1 .. Len(norm_args[1]) :
                /\ ColumnSum(norm_ret[1], c) = One
                /\ \A i \in 1 .. T :
                     norm_ret[1][i][c] =
                        IF ColumnSum(norm_args, c) # Zero
                        THEN RDiv(norm_args[i][c], ColumnSum(norm_args, c))
                        ELSE Rat(1, T)

\* C8 witness: two trajectories, one all-zero column and one column with
\* unequal nonzero ratios.
C8_Witness ==
    /\ norm_ret # << >>
    /\ Len(norm_args) = 2
    /\ Len(norm_args[1]) = 2
    /\ ColumnSum(norm_args, 1) = Zero
    /\ norm_args[1][2] = Half /\ norm_args[2][2] = Int2R(3)
    /\ norm_ret[1] = << <<Half, Rat(1, 7)>>, <<Half, Rat(6, 7)>> >>

(***************************************************************************)
(* The rolling-average accessors, lines 183-201.                           *)
(***************************************************************************)
RecentWindow == 100     \* the accessors average the last 100 values
MaxHistory == 102       \* a history list holds 0..MaxHistory values

RecentNames == << "td_loss", "mc_loss", "reward_inverse_propensity_score",
                  "reward_direct_method", "reward_doubly_robust" >>

\* The value recorded k-th (1-based) in a history of one of three shapes; the
\* five lists of one state have the same shape, scaled by the list's number.
RecordedValue(shape, k) ==
    IF shape = "ramp" THEN k
    ELSE IF shape = "spike" THEN (IF k <= 2 THEN 1000 ELSE 1)
    ELSE (k * k) % 7

RecentHistories ==
    { [ m \in 1 .. Len(RecentNames) |->
          [ k \in 1 .. n |-> Int2R(m * RecordedValue(shape, k)) ] ]
        : n \in 0 .. MaxHistory, shape \in { "ramp", "spike", "squares" } }

\* begin = max(0, len(x) - 100)
RecentBegin_FromTheStart(len) == 0

RecentBegin(len) == Max(0, len - RecentWindow)

\* Python's x[begin:] for begin >= 0
PySliceFrom(x, begin) == SubSeq(x, begin + 1, Len(x))

\* np.mean(np.array(x[begin:])); the list x itself is left as it was.
GetRecent(x) ==
    LET begin == RecentBegin(Len(x))
        recent == PySliceFrom(x, begin)
    IN  [ mean |-> RDiv(RSum(recent), Int2R(Len(recent))), list |-> x ]

InitRecent ==
    /\ recent_history \in RecentHistories
    /\ recent_ret = << >>
    /\ IdleReport /\ IdleOneStep /\ IdleSeq /\ IdleErr /\ IdleStep /\ IdleTraj
    /\ IdleNorm /\ IdleSubsets

RecentAccessor(m) ==
    /\ recent_ret = << >>
    /\ LET got == GetRecent(recent_history[m])
       IN  /\ recent_ret' = << m, got.mean, recent_history >>
           /\ recent_history' = [ recent_history EXCEPT ![m] = got.list ]
    /\ UNCHANGED <<varsReport, varsOneStep, varsSeq, varsErr, varsStep, varsTraj,
                   varsNorm, varsSubsets>>

get_recent_td_loss == RecentAccessor(1)
get_recent_mc_loss == RecentAccessor(2)
get_recent_inverse_propensity_score == RecentAccessor(3)
get_recent_direct_method == RecentAccessor(4)
get_recent_doubly_robust == RecentAccessor(5)

NextRecent ==
    \/ get_recent_td_loss
    \/ get_recent_mc_loss
    \/ get_recent_inverse_propensity_score
    \/ get_recent_direct_method
    \/ get_recent_doubly_robust

SpecRecent == InitRecent /\ [][NextRecent]_vars

\* The sum of the values recorded at positions from .. to of a list.
RECURSIVE SumRecorded(_, _, _)
SumRecorded(x, from, to) ==
    IF from > to THEN Zero
    ELSE IF from = to THEN x[to]
    ELSE LET mid == (from + to) \div 2
         IN  RAdd(SumRecorded(x, from, mid), SumRecorded(x, mid + 1, to))

\* C9: each accessor returns, for a history of n >= 1 values of its metric,
\* the mean of exactly the last min(n, 100) values in recording order: older
\* values do not affect it; and the accessor leaves the history as it was.
C9_MeanOfLastHundred ==
    recent_ret # << >> =>
        LET x == recent_ret[3][recent_ret[1]]
            n == Len(x)
            m == Min(n, 100)
        IN  /\ recent_history = recent_ret[3]
            /\ n >= 1 => recent_ret[2] = RDiv(SumRecorded(x, n - m + 1, n), Int2R(m))

\* C9 witness: an accessor has read a history of more than 100 values whose
\* two oldest values are far larger than the rest, and returned the mean of
\* the rest.
C9_Witness ==
    /\ recent_ret # << >>
    /\ Len(recent_ret[3][recent_ret[1]]) = 102
    /\ recent_ret[3][recent_ret[1]][1] = Int2R(1000 * recent_ret[1])
    /\ recent_ret[2] = Int2R(recent_ret[1])
    /\ recent_ret[1] = 5

(***************************************************************************)
(* The confidence-bound subsets of                                         *)
(* weighted_doubly_robust_sequential_policy_estimation, lines 379-409.     *)
(*                                                                         *)
(* interval = num_trajectories / 25 is a Python float (an IEEE double),    *)
(* and so is i * interval; int() truncates it.  A double is modelled       *)
(* exactly, as mant * 2^exp with mant a natural number of at most 53       *)
(* significant bits, and each operation rounds its exact result to the     *)
(* nearest double, ties to even.  A mantissa is a sequence of limbs, least *)
(* significant first, each below Base.                                     *)
(***************************************************************************)
MaxCbTrajectories == 30     \* num_trajectories ranges over 1..MaxCbTrajectories

num_subsets_for_cb_estimate == 25
DoublePrecision == 53       \* the significand bits of a Python float
LimbWidth == 10
Base == 2 ^ LimbWidth
GuardLimbs == 6             \* a quotient is computed to 60 binary places

\* Bit k (bit 0 is the least significant) of the natural number a.
BigBit(a, k) ==
    LET j == k \div LimbWidth + 1
    IN  IF j > Len(a) THEN 0 ELSE (a[j] \div (2 ^ (k % LimbWidth))) % 2

\* The number of significant bits of a; 0 for zero.
BigBitLength(a) ==
    LET ones == { k \in 0 .. LimbWidth * Len(a) - 1 : BigBit(a, k) = 1 }
    IN  IF ones = {} THEN 0 ELSE 1 + CHOOSE k \in ones : \A l \in ones : l <= k

\* The limb made of bits start .. start + LimbWidth - 1 of a.
RECURSIVE LimbAt(_, _, _)
LimbAt(a, start, b) ==
    IF b = LimbWidth THEN 0
    ELSE BigBit(a, start + b) * (2 ^ b) + LimbAt(a, start, b + 1)

\* a \div 2^d
BigShiftRight(a, d) ==
    [ j \in 1 .. Len(a) |-> LimbAt(a, LimbWidth * (j - 1) + d, 0) ]

\* a + c, for a small c
RECURSIVE BigAddSmall(_, _)
BigAddSmall(a, c) ==
    IF c = 0 THEN a
    ELSE IF a = << >> THEN << c >>
    ELSE << (a[1] + c) % Base >> \o BigAddSmall(Tail(a), (a[1] + c) \div Base)

\* a * i + c, for small i and c
RECURSIVE BigTimesSmall(_, _, _)
BigTimesSmall(a, i, c) ==
    IF a = << >> THEN (IF c = 0 THEN << >> ELSE << c >>)
    ELSE << (a[1] * i + c) % Base >>
            \o BigTimesSmall(Tail(a), i, (a[1] * i + c) \div Base)

\* Long division of the limbs 1 .. j of a, with r carried in from above, by
\* a small d: the quotient's limbs and the remainder.
RECURSIVE BigDivSmall(_, _, _, _)
BigDivSmall(a, d, j, r) ==
    IF j = 0 THEN [ q |-> << >>, r |-> r ]
    ELSE LET cur == r * Base + a[j]
             rest == BigDivSmall(a, d, j - 1, cur % d)
         IN  [ q |-> Append(rest.q, cur \div d), r |-> rest.r ]

\* The value of a, for an a that fits a machine integer.
RECURSIVE BigToInt(_)
BigToInt(a) == IF a = << >> THEN 0 ELSE a[1] + Base * BigToInt(Tail(a))

\* The double nearest to m * 2^exp (plus a nonzero fraction of 2^exp below
\* one unit of m when `inexact`), ties to even.  The values here are far
\* from the subnormal and overflow ranges.
RoundToDouble(m, exp, inexact) ==
    LET drop == BigBitLength(m) - DoublePrecision
    IN  IF drop <= 0 THEN [ mant |-> m, exp |-> exp ]
        ELSE LET kept == BigShiftRight(m, drop)
                 half == BigBit(m, drop - 1) = 1
                 below == inexact \/ \E k \in 0 .. drop - 2 : BigBit(m, k) = 1
                 up == half /\ (below \/ BigBit(kept, 0) = 1)
             IN  [ mant |-> IF up THEN BigAddSmall(kept, 1) ELSE kept,
                   exp |-> exp + drop ]

\* n / d for Python ints 0 < n < Base and small d > 0 (true division)
FloatDivide(n, d) ==
    LET num == [ j \in 1 .. GuardLimbs + 1 |-> IF j = GuardLimbs + 1 THEN n ELSE 0 ]
        div == BigDivSmall(num, d, Len(num), 0)
    IN  RoundToDouble(div.q, -(LimbWidth * GuardLimbs), div.r # 0)

\* i * x for a small Python int i >= 0 and a float x
FloatTimesInt(i, x) == RoundToDouble(BigTimesSmall(x.mant, i, 0), x.exp, FALSE)

\* int(x) for a float x >= 0 with a negative exponent: truncation
IntOfFloat(x) == BigToInt(BigShiftRight(x.mant, -x.exp))

\* np.arange(start, stop) for ints: empty when stop <= start
NpArange(start, stop) ==
    [ k \in 1 .. (IF stop > start THEN stop - start ELSE 0) |-> start + k - 1 ]

\* line 381
Interval(num_trajectories) == FloatDivide(num_trajectories, num_subsets_for_cb_estimate)

\* lines 383-385
TrajectorySubset(i, interval) ==
    NpArange(IntOfFloat(FloatTimesInt(i, interval)),
             IntOfFloat(FloatTimesInt(i + 1, interval)))

InitSubsets ==
    /\ subset_num_trajectories \in 1 .. MaxCbTrajectories
    /\ subset_i = 0
    /\ trajectory_subsets = << >>
    /\ IdleReport /\ IdleOneStep /\ IdleSeq /\ IdleErr /\ IdleStep /\ IdleTraj
    /\ IdleNorm /\ IdleRecent

\* One pass of the for loop of line 382.
SubsetPass ==
    /\ subset_num_trajectories >= 1
    /\ subset_i < num_subsets_for_cb_estimate
    /\ trajectory_subsets' =
           Append(trajectory_subsets,
                  TrajectorySubset(subset_i, Interval(subset_num_trajectories)))
    /\ subset_i' = subset_i + 1
    /\ UNCHANGED <<subset_num_trajectories, varsReport, varsOneStep, varsSeq,
                   varsErr, varsStep, varsTraj, varsNorm, varsRecent>>

NextSubsets == SubsetPass

SpecSubsets == InitSubsets /\ [][NextSubsets]_vars

\* The subsets that hold trajectory index t.
SubsetsHolding(t) ==
    { i \in 1 .. Len(trajectory_subsets) :
        \E k \in 1 .. Len(trajectory_subsets[i]) : trajectory_subsets[i][k] = t }

\* C11: for every trajectory count T >= 1, when the loop has ended the 25
\* subsets are the index ranges [floor(i*T/25), floor((i+1)*T/25)): they are
\* contiguous and in increasing order, every trajectory index 0..T-1 is in
\* exactly one of them, and none of them is empty.
C11_SubsetsPartitionTheTrajectories ==
    subset_i = num_subsets_for_cb_estimate =>
        LET T == subset_num_trajectories
        IN  /\ \A i \in 0 .. num_subsets_for_cb_estimate - 1 :
                 /\ trajectory_subsets[i + 1] =
                        NpArange((i * T) \div num_subsets_for_cb_estimate,
                                 ((i + 1) * T) \div num_subsets_for_cb_estimate)
                 /\ trajectory_subsets[i + 1] # << >>
            /\ \A t \in 0 .. T - 1 : Cardinality(SubsetsHolding(t)) = 1

====
